---- MODULE Spec2Model ----
(***************************************************************************)
(* Model of compyuiAPI.py: the ComfyUIAPI client (update_node_input,       *)
(* run_workflow, wait_for_completion, get_history, download_images) and    *)
(* the __main__ batch driver that runs one job per story description       *)
(* against a remote server whose responses are arbitrary.                  *)
(***************************************************************************)
EXTENDS Integers, Sequences, FiniteSets, TLC

(***************************************************************************)
(* Bounds of the model.                                                    *)
(***************************************************************************)
MaxStories == 3
MaxPolls == 3
MaxQueue == 2

(***************************************************************************)
(* Program constants.                                                      *)
(***************************************************************************)
StatusOK == 200
CooldownSeconds == 2

(***************************************************************************)
(* JSON / Python values.  A value is a pair <<type, text>>.                *)
(***************************************************************************)
Str(s) == <<"str", s>>
Null == <<"null", "">>
Absent == <<"absent", "">>

\* Python str(v): a string is itself, None becomes the four letters "None".
PyStr(v) == IF v[1] = "str" THEN v
            ELSE IF v[1] = "null" THEN Str("None")
            ELSE Str(v[2])

\* Python truth value of a JSON scalar: "" and None are false.
Truthy(v) == v \notin {Str(""), Null, Absent}

\* HTTP status codes the server may answer with: 200, another 2xx, an error.
StatusCodes == {200, 204, 500}

(***************************************************************************)
(* Workflow graphs.  A graph is a dict from node id to a node record; the  *)
(* node records are objects on the heap, so two dicts can hold the same    *)
(* node record.  workflow and current_workflow map node id -> reference,   *)
(* heap maps reference -> the node's "inputs" mapping.                     *)
(***************************************************************************)
NodeIds == {"32", "6"}
FieldNames == {"text", "seed"}
InputValues == {"a", "b"}
Descriptions == <<"d1", "d2", "d3", "d4">>

RefOf(n) == IF n = "32" THEN 1 ELSE 2

AllInputs == UNION {[D -> InputValues] : D \in SUBSET FieldNames}
AllGraphs == UNION {[D -> AllInputs] : D \in SUBSET NodeIds}

\* json.load of a workflow document: one fresh node record per node.
LoadHeap(g) == [r \in {RefOf(n) : n \in DOMAIN g} |->
                  g[CHOOSE n \in DOMAIN g : RefOf(n) = r]]
LoadDict(g) == [n \in DOMAIN g |-> RefOf(n)]

\* The graph a dict denotes: node id -> inputs, read through the heap.
GraphOf(h, w) == [n \in DOMAIN w |-> h[w[n]]]

\* dict.copy(): a new top-level dict holding the same node records.
ShallowCopy(w) == w

\* Mutant: the node's inputs are replaced by the one new input.
update_node_input_ReplaceInputs(h, w, node_id, input_name, new_value) ==
    IF node_id \in DOMAIN w
    THEN IF input_name \in DOMAIN h[w[node_id]]
         THEN [heap |-> [h EXCEPT ![w[node_id]] =
                             [f \in {input_name} |-> new_value]],
               ret |-> w, msg |-> "updated"]
         ELSE [heap |-> h, ret |-> w, msg |-> "warn_no_input"]
    ELSE [heap |-> h, ret |-> w, msg |-> "warn_no_node"]

\* Mutant: a missing input is created instead of warned about.
update_node_input_CreateInput(h, w, node_id, input_name, new_value) ==
    IF node_id \in DOMAIN w
    THEN [heap |-> [h EXCEPT ![w[node_id]] =
                       [f \in DOMAIN h[w[node_id]] \cup {input_name} |->
                           IF f = input_name THEN new_value ELSE h[w[node_id]][f]]],
          ret |-> w, msg |-> "updated"]
    ELSE [heap |-> h, ret |-> w, msg |-> "warn_no_node"]

\* update_node_input: overwrite in place when node and input exist, else
\* print a warning; the dict passed in is the one returned.
update_node_input(h, w, node_id, input_name, new_value) ==
    IF node_id \in DOMAIN w
    THEN IF input_name \in DOMAIN h[w[node_id]]
         THEN [heap |-> [h EXCEPT ![w[node_id]] =
                             [@ EXCEPT ![input_name] = new_value]],
               ret |-> w, msg |-> "updated"]
         ELSE [heap |-> h, ret |-> w, msg |-> "warn_no_input"]
    ELSE [heap |-> h, ret |-> w, msg |-> "warn_no_node"]

(***************************************************************************)
(* run_workflow: the /prompt response and the extraction of the prompt id. *)
(* A response body is a JSON object (its "prompt_id" and "id" members,     *)
(* Absent when the key is missing) or a JSON array (its items).            *)
(***************************************************************************)
DictBody(p, d) == [kind |-> "dict", prompt_id |-> p, id |-> d, items |-> <<>>]
ListBody(s) == [kind |-> "list", prompt_id |-> Absent, id |-> Absent, items |-> s]
NoBody == [kind |-> "none", prompt_id |-> Absent, id |-> Absent, items |-> <<>>]

SubmitBodies ==
    {DictBody(p, d) : p \in {Absent, Str(""), Null, Str("p1")},
                      d \in {Absent, Str(""), Str("p2")}}
    \cup {ListBody(s) : s \in {<<>>, <<Str("q1")>>, <<Str("")>>, <<Null>>,
                               <<Str("id")>>, <<Str("prompt_id")>>,
                               <<Str("q1"), Str("id")>>}}

\* Python `key in result`: key lookup on a dict, element membership on a list.
HasKey(result, key) ==
    IF result.kind = "dict"
    THEN (IF key = "prompt_id" THEN result.prompt_id ELSE result.id) # Absent
    ELSE \E j \in 1..Len(result.items) : result.items[j] = Str(key)

NoError == [type |-> "none", status |-> 0, body |-> NoBody]
Raise(type, status, body) == [type |-> type, status |-> status, body |-> body]

\* Lines 78-87: the value bound to prompt_id, or the exception raised.
\* result["prompt_id"] on a list raises TypeError (list indices).
ExtractPromptId(result) ==
    IF HasKey(result, "prompt_id")
    THEN IF result.kind = "dict"
         THEN [exc |-> "none", value |-> result.prompt_id]
         ELSE [exc |-> "TypeError", value |-> Absent]
    ELSE IF HasKey(result, "id")
    THEN IF result.kind = "dict"
         THEN [exc |-> "none", value |-> result.id]
         ELSE [exc |-> "TypeError", value |-> Absent]
    ELSE IF result.kind = "list" /\ Len(result.items) > 0
    THEN [exc |-> "none", value |-> PyStr(result.items[1])]
    ELSE [exc |-> "none", value |-> Str("")]

\* Mutant: the status code is not looked at.
run_workflow_NoStatusCheck(status, body) ==
    LET x == ExtractPromptId(body) IN
    IF x.exc # "none"
    THEN [error |-> Raise(x.exc, status, body), value |-> Absent]
    ELSE IF ~Truthy(x.value)
    THEN [error |-> Raise("MissingIdentifier", status, body), value |-> Absent]
    ELSE [error |-> NoError, value |-> x.value]

\* run_workflow as a whole: the returned prompt id, or the error raised.
run_workflow(status, body) ==
    IF status # StatusOK
    THEN [error |-> Raise("SubmitError", status, body), value |-> Absent]
    ELSE LET x == ExtractPromptId(body) IN
         IF x.exc # "none"
         THEN [error |-> Raise(x.exc, status, body), value |-> Absent]
         ELSE IF ~Truthy(x.value)
         THEN [error |-> Raise("MissingIdentifier", status, body), value |-> Absent]
         ELSE [error |-> NoError, value |-> x.value]

(***************************************************************************)
(* wait_for_completion: the /queue response and its parsing.  A queue      *)
(* entry is <<"dict", id>> (an object with "prompt_id"), <<"list", id>> (a *)
(* non-empty array, id first) or <<"other", Absent>> (anything else).      *)
(***************************************************************************)
OtherJob == Str("other")

QueueEntries(pid) ==
    {<<k, x>> : k \in {"dict", "list"}, x \in {pid, OtherJob}}
    \cup {<<"other", Absent>>}

SeqsUpTo(S, n) == UNION {[1..m -> S] : m \in 0..n}

\* The value under "queue_running"/"queue_pending": a list of entries, or
\* (is_list FALSE) the key is missing or its value is no list.  A queue
\* response holds at most MaxQueue entries over both lists.
QueueList(s) == [is_list |-> TRUE, items |-> s]
NotAList == [is_list |-> FALSE, items |-> <<>>]
QueueBody(r, p) == [queue_running |-> r, queue_pending |-> p]

QueueData(pid) ==
    UNION {{QueueBody(QueueList(r), QueueList(p)) :
               r \in [1..mk[1] -> QueueEntries(pid)],
               p \in [1..mk[2] -> QueueEntries(pid)]} :
           mk \in {x \in (0..MaxQueue) \X (0..MaxQueue) : x[1] + x[2] <= MaxQueue}}
    \cup {QueueBody(NotAList, NotAList)}
    \cup {QueueBody(NotAList, QueueList(<<e>>)) : e \in QueueEntries(pid)}
    \cup {QueueBody(QueueList(<<e>>), NotAList) : e \in QueueEntries(pid)}

QueueResponses(pid) == StatusCodes \X QueueData(pid)

\* Lines 124-128 / 132-136: collect the ids of the recognised entries.
RECURSIVE ParseItems(_)
ParseItems(items) ==
    IF items = <<>> THEN <<>>
    ELSE LET item == Head(items) IN
         (IF item[1] \in {"dict", "list"} THEN <<item[2]>> ELSE <<>>)
         \o ParseItems(Tail(items))

ParseQueue(q) == IF q.is_list THEN ParseItems(q.items) ELSE <<>>

InList(x, s) == \E j \in 1..Len(s) : s[j] = x

\* Mutant: the job's absence alone completes the wait.
Completed_IgnoreRunning(pid, running, pending) ==
    /\ ~InList(pid, running)
    /\ ~InList(pid, pending)

\* Mutant: the wait also insists on an empty pending list.
Completed_PendingEmpty(pid, running, pending) ==
    /\ ~InList(pid, running)
    /\ ~InList(pid, pending)
    /\ running = <<>>
    /\ pending = <<>>

\* Lines 142-145: the completion test on the parsed lists.
Completed(pid, running, pending) ==
    /\ ~InList(pid, running)
    /\ ~InList(pid, pending)
    /\ running = <<>>

\* Mutant: the lists are parsed whatever the status.
PollStep_IgnoreStatus(st, queue_data, pid, running_old, pending_old) ==
    LET running == ParseQueue(queue_data.queue_running)
        pending == ParseQueue(queue_data.queue_pending)
    IN [next |-> IF ~InList(pid, running) /\ ~InList(pid, pending) /\ running = <<>>
                 THEN "download" ELSE "wait_sleep",
        running |-> running, pending |-> pending]

\* Lines 107-148: what one poll decides from the response: a status other
\* than 200 keeps the lists of the earlier iteration and sleeps; otherwise
\* the parsed lists decide between returning True and sleeping.
PollStep(st, queue_data, pid, running_old, pending_old) ==
    IF st # StatusOK
    THEN [next |-> "wait_sleep", running |-> running_old, pending |-> pending_old]
    ELSE LET running == ParseQueue(queue_data.queue_running)
             pending == ParseQueue(queue_data.queue_pending)
         IN [next |-> IF Completed(pid, running, pending)
                      THEN "download" ELSE "wait_sleep",
             running |-> running, pending |-> pending]

(***************************************************************************)
(* get_history / download_images: the /history collection.  A record is    *)
(* the set of its keys and its "outputs": a sequence (in document order)   *)
(* of node outputs, each a sequence of <<kind, descriptors>>; a descriptor *)
(* is its filename, a path given as its components (<<>> for "" or for a   *)
(* descriptor without "filename").                                         *)
(***************************************************************************)
EmptyRecord == [keys |-> {}, outputs |-> <<>>]
StatusOnly == [keys |-> {"status"}, outputs |-> <<>>]
OutRec(o) == [keys |-> {"outputs", "status"}, outputs |-> o]

OutputChoices ==
    { <<>>,
      << << <<"images", << <<"a.png">> >> >> >> >>,
      << << <<"images", << <<"a.png">>, <<"sub", "b.png">> >> >> >> >>,
      << << <<"gifs", << <<"c.gif">> >> >>,
            <<"images", << <<>>, <<"a.png">> >> >> >> >>,
      << << <<"images", << <<"a.png">> >> >> >>,
         << <<"images", << <<"sub", "b.png">> >> >> >> >>,
      << << <<"images", << <<"a.png">>, <<"sub", "a.png">> >> >> >> >>,
      << << <<"images", << <<"a.png">>, <<"sub", "b.png">> >> >>,
            <<"gifs", << <<"c.gif">> >> >> >>,
         << <<"images", << <<"c.png">> >> >> >> >> }

Records == {EmptyRecord, StatusOnly} \cup {OutRec(o) : o \in OutputChoices}

\* The history collections the server may answer with: job id -> record.
Histories(pid) ==
    {<<>>} \cup {[j \in {OtherJob} |-> StatusOnly]}
    \cup {[j \in {pid} |-> r] : r \in Records}
    \cup {[j \in {pid, OtherJob} |-> OutRec(<<>>)]}

\* Lines 15 and 165: ComfyUIAPI.history_data, the collection of the latest
\* successful get_history.
VARIABLE history_data

\* Mutant: a job absent from the fetched collection is looked up in the
\* cached one.
get_history_FallbackToCache(history, pid) ==
    IF pid \in DOMAIN history THEN history[pid]
    ELSE IF pid \in DOMAIN history_data THEN history_data[pid]
    ELSE EmptyRecord

\* Lines 167-171: the record of prompt_id, {} when it has none.
get_history(history, pid) ==
    IF pid \in DOMAIN history THEN history[pid] ELSE EmptyRecord

\* Mutant: only the empty record counts as having no outputs.
NoOutputs_OnlyEmpty(rec) == rec.keys = {}

\* Line 186: `not history or "outputs" not in history`.
NoOutputs(rec) == rec.keys = {} \/ "outputs" \notin rec.keys

\* Lines 197-202: the filenames requested, in encounter order: every
\* descriptor of kind "images" with a non-empty filename.
RECURSIVE Concat(_)
Concat(ss) == IF ss = <<>> THEN <<>> ELSE Head(ss) \o Concat(Tail(ss))

NonEmptyNames(data) == SelectSeq(data, LAMBDA f : f # <<>>)
KindNames(entry) == IF entry[1] = "images" THEN NonEmptyNames(entry[2]) ELSE <<>>
NodeNames(node_output) ==
    Concat([k \in 1..Len(node_output) |-> KindNames(node_output[k])])
Requested(rec) ==
    Concat([n \in 1..Len(rec.outputs) |-> NodeNames(rec.outputs[n])])

\* os.path.basename and os.path.join on component paths.
Basename(path) == IF path = <<>> THEN "" ELSE path[Len(path)]
LocalPath(output_dir, filename) == output_dir \o <<Basename(filename)>>

\* Lines 297 and 331: "output/test" for the test run, "output/story_<i+1>".
StoryDirs == <<"story_2", "story_3", "story_4", "story_5">>
OutputDir(i) == IF i = 0 THEN <<"output", "test">> ELSE <<"output", StoryDirs[i]>>

(***************************************************************************)
(* State.                                                                  *)
(***************************************************************************)
VARIABLES
    pc,                 \* position of the driver (or of the single call)
    heap,               \* node records: reference -> inputs
    workflow,           \* the base graph dict: node id -> reference
    loadedGraph,        \* the graph as it was loaded (history variable)
    story_descriptions, \* the batch: one description per job
    i,                  \* index of the current job (0 is the test run)
    current_workflow,   \* the per-job dict: node id -> reference
    call,               \* arguments of the latest update_node_input call
    msg,                \* what the latest operation printed
    prompt_data,        \* the graph sent in the latest /prompt request
    status_code,        \* status of the latest HTTP response
    prompt_status,      \* status of the latest /prompt response
    result,             \* body of the latest /prompt response
    prompt_id,          \* the driver's prompt_id
    running_prompts,    \* wait_for_completion: parsed running list
    pending_prompts,    \* wait_for_completion: parsed pending list
    reqs,               \* requests issued for the current job, per endpoint
    sleeps,             \* poll-interval sleeps of the current job
    first_qualifying,   \* number of the first qualifying poll, 0 if none yet
    history_resp,       \* the latest /history response: <<status, body>>
    view_log,           \* the /view requests of the latest download_images:
                        \* <<filename, status>> each, in order
    record,             \* download_images: what get_history returned
    todo,               \* download_images: filenames still to request
    downloaded_files,   \* download_images: paths written so far
    files,              \* local files written
    dirs,               \* local directories created
    error,              \* the exception that reached the outer except
    cooldowns           \* cooldown sleeps: <<job index, seconds>>

vars == <<pc, heap, workflow, loadedGraph, story_descriptions, i,
          current_workflow, call, msg, prompt_data, status_code, prompt_status,
          result, prompt_id, running_prompts, pending_prompts, reqs, sleeps,
          first_qualifying, history_data, history_resp, view_log, record,
          todo, downloaded_files, files, dirs, error, cooldowns>>

graphVars == <<heap, workflow, loadedGraph, story_descriptions, current_workflow,
               call, prompt_data>>
waitVars == <<running_prompts, pending_prompts, sleeps, first_qualifying>>
fileVars == <<history_data, history_resp, view_log, record, todo,
              downloaded_files, files, dirs>>
submitVars == <<prompt_status, result, prompt_id>>

NoRequests == [prompt |-> 0, queue |-> 0, history |-> 0, view |-> 0]
NoCall == [node_id |-> "", input_name |-> "", new_value |-> ""]

\* The workflow documents the driver is run against: node "32" with and
\* without a "text" input, and a document without node "32".
DriverGraphs ==
    { ("32" :> [text |-> "a", seed |-> "b"]) @@ ("6" :> [text |-> "a"]),
      ("32" :> [seed |-> "b"]) @@ ("6" :> [text |-> "a"]),
      ("6" :> [text |-> "a"]) }

\* Lines 8-15 and the locals of __main__ before anything ran.
InitCommon ==
    /\ msg = ""
    /\ prompt_data = <<>>
    /\ status_code = 0
    /\ prompt_status = 0
    /\ result = NoBody
    /\ running_prompts = <<>>
    /\ pending_prompts = <<>>
    /\ reqs = NoRequests
    /\ sleeps = 0
    /\ first_qualifying = 0
    /\ record = EmptyRecord
    /\ history_resp = <<0, <<>> >>
    /\ view_log = <<>>
    /\ todo = <<>>
    /\ downloaded_files = <<>>
    /\ files = {}
    /\ dirs = {}
    /\ error = NoError
    /\ cooldowns = {}

Init ==
    /\ InitCommon
    /\ history_data = <<>>
    /\ pc = "start"
    /\ i = 0
    /\ prompt_id = Absent
    /\ heap = <<>>
    /\ workflow = <<>>
    /\ loadedGraph = <<>>
    /\ current_workflow = <<>>
    /\ story_descriptions = <<>>
    /\ call = NoCall

(***************************************************************************)
(* The driver (__main__).                                                  *)
(***************************************************************************)
\* Lines 224-262: load the workflow document and the story descriptions.
Load ==
    /\ pc = "start"
    /\ \E g \in DriverGraphs, n \in 0..MaxStories :
          /\ heap' = LoadHeap(g)
          /\ workflow' = LoadDict(g)
          /\ loadedGraph' = g
          /\ story_descriptions' = SubSeq(Descriptions, 1, n)
    /\ pc' = "test_prepare"
    /\ UNCHANGED <<i, current_workflow, call, msg, prompt_data, status_code,
                   reqs, error, cooldowns>>
    /\ UNCHANGED <<submitVars, waitVars, fileVars>>

\* Lines 232-239: load_workflow raises; re-raised to the outer except.
LoadFail ==
    /\ pc = "start"
    /\ pc' = "caught"
    /\ error' = Raise("LoadError", 0, NoBody)
    /\ UNCHANGED <<i, msg, status_code, reqs, cooldowns>>
    /\ UNCHANGED <<graphVars, submitVars, waitVars, fileVars>>

\* Lines 276-279 and 319-322: copy the base dict, patch node "32" "text".
Prepare(k) ==
    LET description == story_descriptions[k + 1]
        u == update_node_input(heap, ShallowCopy(workflow), "32", "text", description)
    IN /\ i' = k
       /\ call' = [node_id |-> "32", input_name |-> "text", new_value |-> description]
       /\ heap' = u.heap
       /\ current_workflow' = u.ret
       /\ msg' = u.msg
       /\ reqs' = NoRequests
       /\ sleeps' = 0
       /\ first_qualifying' = 0
       /\ pc' = "run"
       /\ UNCHANGED <<workflow, loadedGraph, story_descriptions, prompt_data,
                      status_code, running_prompts, pending_prompts, error,
                      cooldowns>>
       /\ UNCHANGED <<submitVars, fileVars>>

\* Lines 272-279: story_descriptions[0] raises IndexError on an empty batch.
TestPrepare ==
    /\ pc = "test_prepare"
    /\ IF story_descriptions = <<>>
       THEN /\ pc' = "caught"
            /\ error' = Raise("IndexError", 0, NoBody)
            /\ UNCHANGED <<i, msg, status_code, reqs, cooldowns>>
            /\ UNCHANGED <<graphVars, submitVars, waitVars, fileVars>>
       ELSE Prepare(0)

(***************************************************************************)
(* What the server may answer.  The client operations are checked against  *)
(* every response of SubmitResponses, QueueResponses, HistoryResponses;    *)
(* the batch driver, which runs several jobs, against the Driver* subsets. *)
(***************************************************************************)
SubmitResponses == StatusCodes \X SubmitBodies
HistoryResponses(pid) == StatusCodes \X Histories(pid)

DriverSubmitResponses ==
    { <<200, DictBody(Str("p1"), Absent)>>,
      <<200, ListBody(<<Str("q1")>>)>>,
      <<200, DictBody(Absent, Absent)>>,
      <<204, DictBody(Str("p1"), Absent)>>,
      <<500, DictBody(Absent, Absent)>> }

DriverQueueResponses(pid) ==
    { <<200, QueueBody(QueueList(<<>>), QueueList(<<>>))>>,
      <<200, QueueBody(QueueList(<< <<"dict", pid>> >>), QueueList(<<>>))>>,
      <<200, QueueBody(QueueList(<<>>), QueueList(<< <<"list", OtherJob>> >>))>>,
      <<500, QueueBody(QueueList(<<>>), QueueList(<<>>))>> }

DriverHistoryResponses(pid) ==
    { <<500, <<>> >>,
      <<200, <<>> >>,
      <<200, [j \in {pid} |-> StatusOnly]>>,
      <<200, [j \in {pid} |-> OutRec(<< << <<"images", << <<"a.png">> >> >> >> >>)]>>,
      <<200, [j \in {pid} |-> OutRec(<< << <<"images", << <<"a.png">>, <<"sub", "b.png">> >> >> >> >>)]>> }

\* A qualifying poll: a successful (status 200) response with the job in
\* neither list of identifiers and no identifier in the running list.
Qualifies(st, queue_data, pid) ==
    /\ st = 200
    /\ ~InList(pid, ParseQueue(queue_data.queue_running))
    /\ ~InList(pid, ParseQueue(queue_data.queue_pending))
    /\ ParseQueue(queue_data.queue_running) = <<>>

\* Mutant: an exception of run_workflow is handled nowhere and ends the
\* driver.
RunWorkflowOn_NoHandler(responses) ==
    /\ pc = "run"
    /\ \E resp \in responses :
          LET r == run_workflow(resp[1], resp[2]) IN
          /\ status_code' = resp[1]
          /\ prompt_status' = resp[1]
          /\ result' = resp[2]
          /\ IF r.error = NoError
             THEN /\ prompt_id' = r.value
                  /\ pc' = "wait_poll"
                  /\ error' = error
             ELSE /\ prompt_id' = prompt_id
                  /\ pc' = "uncaught"
                  /\ error' = r.error
    /\ prompt_data' = GraphOf(heap, current_workflow)
    /\ reqs' = [reqs EXCEPT !.prompt = @ + 1]
    /\ UNCHANGED <<heap, workflow, loadedGraph, story_descriptions,
                   current_workflow, call, i, msg, cooldowns>>
    /\ UNCHANGED <<waitVars, fileVars>>

\* Lines 283 and 325 (run_workflow, lines 63-90); an exception goes to the
\* outer except (the test run prints and re-raises it first).
RunWorkflowOn(responses) ==
    /\ pc = "run"
    /\ \E resp \in responses :
          LET r == run_workflow(resp[1], resp[2]) IN
          /\ status_code' = resp[1]
          /\ prompt_status' = resp[1]
          /\ result' = resp[2]
          /\ IF r.error = NoError
             THEN /\ prompt_id' = r.value
                  /\ pc' = "wait_poll"
                  /\ error' = error
             ELSE /\ prompt_id' = prompt_id
                  /\ pc' = "caught"
                  /\ error' = r.error
    /\ prompt_data' = GraphOf(heap, current_workflow)
    /\ reqs' = [reqs EXCEPT !.prompt = @ + 1]
    /\ UNCHANGED <<heap, workflow, loadedGraph, story_descriptions,
                   current_workflow, call, i, msg, cooldowns>>
    /\ UNCHANGED <<waitVars, fileVars>>

\* Lines 105-148: one poll of wait_for_completion, up to its decision.
WaitPollOn(responses) ==
    /\ pc = "wait_poll"
    /\ reqs.queue < MaxPolls
    /\ \E resp \in responses :
          LET step == PollStep(resp[1], resp[2], prompt_id,
                               running_prompts, pending_prompts)
          IN /\ status_code' = resp[1]
             /\ first_qualifying' =
                   IF first_qualifying = 0 /\ Qualifies(resp[1], resp[2], prompt_id)
                   THEN reqs.queue + 1 ELSE first_qualifying
             /\ running_prompts' = step.running
             /\ pending_prompts' = step.pending
             /\ pc' = step.next
    /\ reqs' = [reqs EXCEPT !.queue = @ + 1]
    /\ UNCHANGED <<i, msg, sleeps, error, cooldowns>>
    /\ UNCHANGED <<graphVars, submitVars, fileVars>>

\* Lines 109-110 and 148: time.sleep(check_interval), then the next poll.
WaitSleep ==
    /\ pc = "wait_sleep"
    /\ sleeps' = sleeps + 1
    /\ pc' = "wait_poll"
    /\ UNCHANGED <<i, msg, status_code, running_prompts, pending_prompts,
                   first_qualifying, reqs, error, cooldowns>>
    /\ UNCHANGED <<graphVars, submitVars, fileVars>>

\* Lines 299 and 332 (download_images, lines 184-195, with get_history,
\* lines 159-171): fetch the history, look the job up, and either return []
\* or create the directory and start on the files.  get_history raises on a
\* status other than 200: the test run catches that (line 303), the batch
\* loop lets it reach the outer except.
DownloadOn(responses) ==
    /\ pc = "download"
    /\ \E resp \in responses :
          LET st == resp[1]
              history == resp[2]
          IN /\ status_code' = st
             /\ IF st # StatusOK
                THEN /\ IF i = 0
                        THEN pc' = "job_end" /\ error' = error
                        ELSE pc' = "caught" /\ error' = Raise("HistoryError", st, NoBody)
                     /\ msg' = "history_failed"
                     /\ history_resp' = resp
                     /\ UNCHANGED <<history_data, view_log, record, todo,
                                    downloaded_files, files, dirs>>
                ELSE LET rec == get_history(history, prompt_id) IN
                     /\ history_data' = history
                     /\ history_resp' = resp
                     /\ view_log' = <<>>
                     /\ record' = rec
                     /\ error' = error
                     /\ downloaded_files' = <<>>
                     /\ files' = files
                     /\ IF NoOutputs(rec)
                        THEN /\ msg' = "warn_no_outputs"
                             /\ todo' = <<>>
                             /\ dirs' = dirs
                             /\ pc' = "job_end"
                        ELSE /\ msg' = "downloading"
                             /\ todo' = Requested(rec)
                             /\ dirs' = dirs \cup {OutputDir(i)}
                             /\ pc' = IF Requested(rec) = <<>> THEN "job_end" ELSE "view"
    /\ reqs' = [reqs EXCEPT !.history = @ + 1]
    /\ running_prompts' = <<>>
    /\ pending_prompts' = <<>>
    /\ UNCHANGED <<i, sleeps, first_qualifying, cooldowns>>
    /\ UNCHANGED <<graphVars, submitVars>>

\* Mutant: the first failed /view request ends the download step.
View_StopAtFailure ==
    /\ pc = "view"
    /\ todo # <<>>
    /\ \E st \in StatusCodes :
          LET local_path == LocalPath(OutputDir(i), Head(todo)) IN
          /\ status_code' = st
          /\ IF st = StatusOK
             THEN /\ files' = files \cup {local_path}
                  /\ downloaded_files' = Append(downloaded_files, local_path)
                  /\ todo' = Tail(todo)
                  /\ pc' = IF Tail(todo) = <<>> THEN "job_end" ELSE "view"
             ELSE /\ UNCHANGED <<files, downloaded_files>>
                  /\ todo' = <<>>
                  /\ pc' = "job_end"
          /\ view_log' = Append(view_log, <<Head(todo), st>>)
    /\ reqs' = [reqs EXCEPT !.view = @ + 1]
    /\ UNCHANGED <<i, msg, history_data, history_resp, record, dirs, error,
                   cooldowns>>
    /\ UNCHANGED <<graphVars, submitVars, waitVars>>

\* Lines 204-215: request the next file; write it on status 200, else skip.
View ==
    /\ pc = "view"
    /\ todo # <<>>
    /\ \E st \in StatusCodes :
          LET local_path == LocalPath(OutputDir(i), Head(todo)) IN
          /\ status_code' = st
          /\ IF st = StatusOK
             THEN /\ files' = files \cup {local_path}
                  /\ downloaded_files' = Append(downloaded_files, local_path)
             ELSE UNCHANGED <<files, downloaded_files>>
          /\ view_log' = Append(view_log, <<Head(todo), st>>)
    /\ todo' = Tail(todo)
    /\ pc' = IF Tail(todo) = <<>> THEN "job_end" ELSE "view"
    /\ reqs' = [reqs EXCEPT !.view = @ + 1]
    /\ UNCHANGED <<i, msg, history_data, history_resp, record, dirs, error,
                   cooldowns>>
    /\ UNCHANGED <<graphVars, submitVars, waitVars>>

\* Lines 300-312 (test run) and 334-341 (batch loop): report the files, then
\* the batch loop sleeps unless this was the last description.
JobEnd ==
    /\ pc = "job_end"
    /\ pc' = IF i >= 1 /\ i < Len(story_descriptions) - 1 THEN "cooldown" ELSE "next"
    /\ UNCHANGED <<i, msg, status_code, reqs, error, cooldowns>>
    /\ UNCHANGED <<graphVars, submitVars, waitVars, fileVars>>

\* Line 342: time.sleep(2).
Cooldown ==
    /\ pc = "cooldown"
    /\ cooldowns' = cooldowns \cup {<<i, CooldownSeconds>>}
    /\ pc' = "next"
    /\ UNCHANGED <<i, msg, status_code, reqs, error>>
    /\ UNCHANGED <<graphVars, submitVars, waitVars, fileVars>>

\* Mutant: the next job is prepared and submitted while the current one is
\* still being awaited.
BatchNext_BeforeAwaitReturns ==
    /\ pc \in {"next", "wait_sleep"}
    /\ i + 1 <= Len(story_descriptions) - 1
    /\ Prepare(i + 1)

\* Mutant: the batch loop goes on to the next description after a failure.
BatchNext_AfterFailure ==
    /\ pc \in {"next", "caught"}
    /\ i + 1 <= Len(story_descriptions) - 1
    /\ Prepare(i + 1)

\* Line 314: the next description of story_descriptions[1:], or the end.
BatchNext ==
    /\ pc = "next"
    /\ i + 1 <= Len(story_descriptions) - 1
    /\ Prepare(i + 1)

BatchEnd ==
    /\ pc = "next"
    /\ i + 1 > Len(story_descriptions) - 1
    /\ pc' = "done"
    /\ UNCHANGED <<i, msg, status_code, reqs, error, cooldowns>>
    /\ UNCHANGED <<graphVars, submitVars, waitVars, fileVars>>

RunWorkflow == RunWorkflowOn(DriverSubmitResponses)
WaitPoll == WaitPollOn(DriverQueueResponses(prompt_id))
Download == DownloadOn(DriverHistoryResponses(prompt_id))

Next ==
    \/ Load
    \/ LoadFail
    \/ TestPrepare
    \/ RunWorkflow
    \/ WaitPoll
    \/ WaitSleep
    \/ Download
    \/ View
    \/ JobEnd
    \/ Cooldown
    \/ BatchNext
    \/ BatchEnd

Spec == Init /\ [][Next]_vars

(***************************************************************************)
(* update_node_input on its own: every graph, node id, input name, value.  *)
(***************************************************************************)
InitSetField ==
    /\ InitCommon
    /\ history_data = <<>>
    /\ pc = "call_update"
    /\ i = 0
    /\ prompt_id = Absent
    /\ \E g \in AllGraphs :
          /\ heap = LoadHeap(g)
          /\ workflow = LoadDict(g)
          /\ loadedGraph = g
    /\ current_workflow = <<>>
    /\ story_descriptions = <<>>
    /\ call \in [node_id : NodeIds \cup {"99"},
                 input_name : FieldNames \cup {"cfg"},
                 new_value : InputValues \cup {"d1"}]

\* Lines 41-50, called on the dict `workflow`; current_workflow receives
\* the returned dict.
CallUpdateNodeInput ==
    /\ pc = "call_update"
    /\ LET u == update_node_input(heap, workflow, call.node_id,
                                  call.input_name, call.new_value)
       IN /\ heap' = u.heap
          /\ current_workflow' = u.ret
          /\ msg' = u.msg
    /\ pc' = "returned"
    /\ UNCHANGED <<workflow, loadedGraph, story_descriptions, call, prompt_data,
                   i, status_code, reqs, error, cooldowns>>
    /\ UNCHANGED <<submitVars, waitVars, fileVars>>

SpecSetField == InitSetField /\ [][CallUpdateNodeInput]_vars

(***************************************************************************)
(* run_workflow on its own: every /prompt response.                        *)
(***************************************************************************)
InitSubmit ==
    /\ InitCommon
    /\ history_data = <<>>
    /\ pc = "run"
    /\ i \in {0, 1}
    /\ prompt_id = (IF i = 0 THEN Absent ELSE Str("p0"))
    /\ \E g \in DriverGraphs :
          /\ heap = LoadHeap(g)
          /\ workflow = LoadDict(g)
          /\ loadedGraph = g
          /\ current_workflow = ShallowCopy(LoadDict(g))
    /\ story_descriptions = <<>>
    /\ call = NoCall

SubmitAny == RunWorkflowOn(SubmitResponses)

SpecSubmit == InitSubmit /\ [][SubmitAny]_vars

(***************************************************************************)
(* wait_for_completion on its own: every sequence of /queue responses.     *)
(***************************************************************************)
InitAwait ==
    /\ InitCommon
    /\ history_data = <<>>
    /\ pc = "wait_poll"
    /\ i = 0
    /\ prompt_id = Str("p1")
    /\ heap = <<>>
    /\ workflow = <<>>
    /\ loadedGraph = <<>>
    /\ current_workflow = <<>>
    /\ story_descriptions = <<>>
    /\ call = NoCall

PollAny == WaitPollOn(QueueResponses(prompt_id))

NextAwait == PollAny \/ WaitSleep

SpecAwait == InitAwait /\ [][NextAwait]_vars

(***************************************************************************)
(* wait_for_completion without a bound on the number of polls.  The loop   *)
(* of line 103 is `while True` with no counter and no deadline; here the   *)
(* observation counters stop at MaxPolls ("MaxPolls or more") so that the  *)
(* loop itself can run forever in a finite state space.  The calling       *)
(* thread runs nothing else, and every request is answered, so a poll or a *)
(* sleep that is due is eventually taken: weak fairness on both.           *)
(***************************************************************************)

\* The /queue answers of this specification: any status, and at most two
\* entries over both lists, which covers every case the completion test
\* distinguishes (the job or another job, running or pending, both at
\* once, an unrecognised entry, a missing list).
LoopQueueData(pid) ==
    UNION {{QueueBody(QueueList(r), QueueList(p)) :
               r \in [1..mk[1] -> QueueEntries(pid)],
               p \in [1..mk[2] -> QueueEntries(pid)]} :
           mk \in {x \in (0..2) \X (0..2) : x[1] + x[2] <= 2}}
    \cup {QueueBody(NotAList, NotAList)}
    \cup {QueueBody(NotAList, QueueList(<<e>>)) : e \in QueueEntries(pid)}
    \cup {QueueBody(QueueList(<<e>>), NotAList) : e \in QueueEntries(pid)}

LoopQueueResponses(pid) == StatusCodes \X LoopQueueData(pid)

\* Mutant: the wait gives up after MaxPolls polls.
PollForever_MaxWait ==
    /\ pc = "wait_poll"
    /\ \E resp \in LoopQueueResponses(prompt_id) :
          LET step == PollStep(resp[1], resp[2], prompt_id,
                               running_prompts, pending_prompts)
          IN /\ status_code' = resp[1]
             /\ first_qualifying' =
                   IF first_qualifying = 0 /\ Qualifies(resp[1], resp[2], prompt_id)
                   THEN (IF reqs.queue < MaxPolls THEN reqs.queue + 1 ELSE MaxPolls)
                   ELSE first_qualifying
             /\ running_prompts' = step.running
             /\ pending_prompts' = step.pending
             /\ pc' = IF step.next = "wait_sleep" /\ reqs.queue + 1 >= MaxPolls
                      THEN "timeout" ELSE step.next
    /\ reqs' = [reqs EXCEPT !.queue = IF @ < MaxPolls THEN @ + 1 ELSE @]
    /\ UNCHANGED <<i, msg, sleeps, error, cooldowns>>
    /\ UNCHANGED <<graphVars, submitVars, fileVars>>

\* Lines 105-148: one poll of wait_for_completion, whatever the number of
\* polls before it.
PollForever ==
    /\ pc = "wait_poll"
    /\ \E resp \in LoopQueueResponses(prompt_id) :
          LET step == PollStep(resp[1], resp[2], prompt_id,
                               running_prompts, pending_prompts)
          IN /\ status_code' = resp[1]
             /\ first_qualifying' =
                   IF first_qualifying = 0 /\ Qualifies(resp[1], resp[2], prompt_id)
                   THEN (IF reqs.queue < MaxPolls THEN reqs.queue + 1 ELSE MaxPolls)
                   ELSE first_qualifying
             /\ running_prompts' = step.running
             /\ pending_prompts' = step.pending
             /\ pc' = step.next
    /\ reqs' = [reqs EXCEPT !.queue = IF @ < MaxPolls THEN @ + 1 ELSE @]
    /\ UNCHANGED <<i, msg, sleeps, error, cooldowns>>
    /\ UNCHANGED <<graphVars, submitVars, fileVars>>

\* Lines 109-110 and 148: time.sleep(check_interval), then the next poll.
SleepForever ==
    /\ pc = "wait_sleep"
    /\ sleeps' = IF sleeps < MaxPolls THEN sleeps + 1 ELSE sleeps
    /\ pc' = "wait_poll"
    /\ UNCHANGED <<i, msg, status_code, running_prompts, pending_prompts,
                   first_qualifying, reqs, error, cooldowns>>
    /\ UNCHANGED <<graphVars, submitVars, fileVars>>

NextAwaitForever == PollForever \/ SleepForever

SpecAwaitForever ==
    /\ InitAwait
    /\ [][NextAwaitForever]_vars
    /\ WF_vars(PollForever)
    /\ WF_vars(SleepForever)

(***************************************************************************)
(* download_images on its own: every /history and /view response.          *)
(***************************************************************************)
InitDownload ==
    /\ InitCommon
    /\ history_data \in {<<>>, [j \in {Str("p0")} |-> StatusOnly]}
    /\ pc = "download"
    /\ i \in {0, 1}
    /\ prompt_id = Str("p1")
    /\ heap = <<>>
    /\ workflow = <<>>
    /\ loadedGraph = <<>>
    /\ current_workflow = <<>>
    /\ story_descriptions = <<>>
    /\ call = NoCall

DownloadAny == DownloadOn(HistoryResponses(prompt_id))

NextDownload == DownloadAny \/ View

SpecDownload == InitDownload /\ [][NextDownload]_vars

(***************************************************************************)
(* Properties.                                                             *)
(***************************************************************************)
NonSuccess(st) == st \notin 200..299

\* C1: cross-job isolation in the batch driver: the base graph always
\* equals the graph as loaded (no job's update reaches it), and the graph
\* submitted for job i is the loaded graph with only job i's description in
\* node "32" input "text".
C1_CrossJobIsolation ==
    /\ GraphOf(heap, workflow) = loadedGraph
    /\ reqs.prompt = 1 =>
          /\ DOMAIN prompt_data = DOMAIN loadedGraph
          /\ \A n \in DOMAIN loadedGraph :
                /\ DOMAIN prompt_data[n] = DOMAIN loadedGraph[n]
                /\ \A f \in DOMAIN loadedGraph[n] :
                      prompt_data[n][f] =
                         IF n = "32" /\ f = "text"
                         THEN story_descriptions[i + 1]
                         ELSE loadedGraph[n][f]

\* C2: wait_for_completion returns only at a poll answered with status 200
\* whose parsed lists hold the job in neither list and nothing in the
\* running list; a successful poll that keeps it waiting has the job in a
\* list or something in the running list, so other jobs that are only
\* pending do not keep it waiting.
C2_AwaitTermination ==
    /\ pc = "download" =>
          /\ status_code = 200
          /\ ~InList(prompt_id, running_prompts)
          /\ ~InList(prompt_id, pending_prompts)
          /\ running_prompts = <<>>
    /\ (pc = "wait_sleep" /\ status_code = 200) =>
          \/ InList(prompt_id, running_prompts)
          \/ InList(prompt_id, pending_prompts)
          \/ running_prompts # <<>>

C2_Witness ==
    /\ pc = "download"
    /\ InList(OtherJob, pending_prompts)
    /\ reqs.queue = 2

\* C3: a non-2xx answer to a poll neither ends nor fails the wait: the poll
\* is followed by one sleep and then the next poll, the lists of the failed
\* response are not taken, there is one sleep between consecutive polls, and
\* the wait has no failure outcome.
C3_PollFailureTransient ==
    /\ [](/\ error = NoError
          /\ pc \in {"wait_poll", "wait_sleep", "download"}
          /\ pc = "wait_sleep" => sleeps = reqs.queue - 1
          /\ pc = "wait_poll" => sleeps = reqs.queue)
    /\ [][(pc = "wait_poll" /\ NonSuccess(status_code')) =>
             /\ pc' = "wait_sleep"
             /\ reqs'.queue = reqs.queue + 1
             /\ UNCHANGED <<running_prompts, pending_prompts, sleeps>>]_vars
    /\ [][pc = "wait_sleep" =>
             /\ pc' = "wait_poll"
             /\ sleeps' = sleeps + 1
             /\ UNCHANGED <<reqs, running_prompts, pending_prompts>>]_vars

C3_Witness ==
    /\ pc = "wait_poll"
    /\ status_code = 500
    /\ reqs.queue = 2
    /\ sleeps = 2

\* C4: wait_for_completion returns at the first qualifying poll: when it
\* has returned, the number of polls is the number of the first qualifying
\* poll and there was one sleep fewer; while it waits, no poll qualified.
C4_ReturnsAtFirstQualifying ==
    /\ pc = "download" =>
          /\ first_qualifying = reqs.queue
          /\ sleeps = reqs.queue - 1
    /\ pc \in {"wait_poll", "wait_sleep"} => first_qualifying = 0

C4_Witness ==
    /\ pc = "download"
    /\ reqs.queue = 2
    /\ sleeps = 1

\* The value the three strategies select, in order, by the presence of the
\* field "prompt_id", of the field "id", of a first element; Absent if none.
SelectedByPresence(body) ==
    IF body.kind = "dict" /\ body.prompt_id # Absent THEN body.prompt_id
    ELSE IF body.kind = "dict" /\ body.id # Absent THEN body.id
    ELSE IF body.kind = "list" /\ Len(body.items) > 0 THEN PyStr(body.items[1])
    ELSE Absent

\* C5: on a response with status 200, run_workflow returns the value of
\* "prompt_id" if the response has that field, else the value of "id" if it
\* has that field, else the first element of a non-empty array as a string;
\* with none of the three it fails with MissingIdentifier.  (What happens
\* with an empty selected value is C6's subject.)
C5_IdentifierExtraction ==
    (pc # "run" /\ prompt_status = 200) =>
        LET sel == SelectedByPresence(result) IN
        IF sel = Absent THEN pc = "caught" /\ error.type = "MissingIdentifier"
        ELSE IF Truthy(sel) THEN pc = "wait_poll" /\ prompt_id = sel /\ error = NoError
        ELSE TRUE

\* The non-empty values the three strategies yield, in order.
NonEmptyCandidates(body) ==
    SelectSeq(<<IF body.kind = "dict" THEN body.prompt_id ELSE Absent,
                IF body.kind = "dict" THEN body.id ELSE Absent,
                IF body.kind = "list" /\ Len(body.items) > 0
                THEN PyStr(body.items[1]) ELSE Absent>>,
              Truthy)

\* C6: on a response with status 200, run_workflow fails with
\* MissingIdentifier only if none of the three strategies yields a non-empty
\* value, and what it returns is the first non-empty value and is non-empty.
C6_FirstNonEmptyMatch ==
    (pc # "run" /\ prompt_status = 200) =>
        /\ error.type = "MissingIdentifier" => NonEmptyCandidates(result) = <<>>
        /\ pc = "wait_poll" =>
              /\ Truthy(prompt_id)
              /\ NonEmptyCandidates(result) # <<>>
              /\ prompt_id = NonEmptyCandidates(result)[1]

\* C7: a non-2xx answer to /prompt is a hard failure: run_workflow raises
\* an error with the status code and the body, hands no prompt id to the
\* driver, and no /queue, /history or /view request is made for that job.
C7_SubmitHardFailure ==
    /\ []((reqs.prompt = 1 /\ NonSuccess(prompt_status)) =>
             /\ pc = "caught"
             /\ error = Raise("SubmitError", prompt_status, result)
             /\ reqs.queue = 0
             /\ reqs.history = 0
             /\ reqs.view = 0)
    /\ [][(pc = "run" /\ pc' # "run" /\ NonSuccess(prompt_status')) =>
             prompt_id' = prompt_id]_vars

C7_Witness ==
    /\ pc = "caught"
    /\ i = 1
    /\ reqs.prompt = 1
    /\ prompt_status = 500
    /\ error.type = "SubmitError"

\* C8: update_node_input on a present node and input: the returned graph
\* (and the graph passed in, which is the same dict) is the input graph
\* with that one input set to the new value, every other input and node as
\* before.
C8_SetFieldPresent ==
    (/\ pc = "returned"
     /\ call.node_id \in DOMAIN loadedGraph
     /\ call.input_name \in DOMAIN loadedGraph[call.node_id]) =>
        LET after == GraphOf(heap, current_workflow) IN
        /\ GraphOf(heap, workflow) = after
        /\ DOMAIN after = DOMAIN loadedGraph
        /\ \A n \in DOMAIN loadedGraph :
              /\ DOMAIN after[n] = DOMAIN loadedGraph[n]
              /\ \A f \in DOMAIN loadedGraph[n] :
                    after[n][f] =
                       IF n = call.node_id /\ f = call.input_name
                       THEN call.new_value
                       ELSE loadedGraph[n][f]

C8_Witness ==
    /\ pc = "returned"
    /\ call = [node_id |-> "32", input_name |-> "text", new_value |-> "d1"]
    /\ DOMAIN loadedGraph = {"32", "6"}
    /\ DOMAIN loadedGraph["32"] = {"text", "seed"}
    /\ heap[current_workflow["32"]]["text"] = "d1"

\* C9: update_node_input on a missing node, or on a node without the
\* input: the returned graph equals the input graph, nothing is mutated, a
\* warning is printed and no error is raised.
C9_SetFieldMissing ==
    (/\ pc = "returned"
     /\ \/ call.node_id \notin DOMAIN loadedGraph
        \/ call.input_name \notin DOMAIN loadedGraph[call.node_id]) =>
        /\ GraphOf(heap, current_workflow) = loadedGraph
        /\ GraphOf(heap, workflow) = loadedGraph
        /\ msg \in {"warn_no_node", "warn_no_input"}
        /\ error = NoError

C9_Witness ==
    /\ pc = "returned"
    /\ call.node_id = "32"
    /\ call.input_name = "cfg"
    /\ DOMAIN loadedGraph = {"32"}
    /\ DOMAIN loadedGraph["32"] = {"text"}
    /\ msg = "warn_no_input"

\* C10: once /history answered with status 200: for a job absent from the
\* collection get_history returns the empty record; and for a record that
\* is empty or has no "outputs" download_images returns [] without raising,
\* creates no directory, writes no file and makes no /view request.
C10_MissingHistoryNotAnError ==
    (pc # "download" /\ msg # "history_failed") =>
        /\ prompt_id \notin DOMAIN history_data => record = EmptyRecord
        /\ (record.keys = {} \/ "outputs" \notin record.keys) =>
              /\ pc = "job_end"
              /\ error = NoError
              /\ downloaded_files = <<>>
              /\ dirs = {}
              /\ files = {}
              /\ reqs.view = 0

C10_Witness ==
    /\ pc = "job_end"
    /\ prompt_id \in DOMAIN history_data
    /\ record = StatusOnly
    /\ downloaded_files = <<>>

\* The positions <<node, kind entry, descriptor>> of the descriptors of a
\* record that the claims call requestable: kind "images", filename not empty.
ImagePositions(rec) ==
    UNION {UNION {{<<n, k, d>> : d \in {e \in 1..Len(rec.outputs[n][k][2]) :
                                          /\ rec.outputs[n][k][1] = "images"
                                          /\ rec.outputs[n][k][2][e] # <<>>}} :
                  k \in 1..Len(rec.outputs[n])} :
           n \in 1..Len(rec.outputs)}

Before(a, b) ==
    \/ a[1] < b[1]
    \/ a[1] = b[1] /\ a[2] < b[2]
    \/ a[1] = b[1] /\ a[2] = b[2] /\ a[3] < b[3]

\* The requestable filenames of a record in encounter order.
ImageNames(rec) ==
    LET S == ImagePositions(rec)
        N == Cardinality(S)
        s == CHOOSE f \in [1..N -> S] :
                 \A x, y \in 1..N : x < y => Before(f[x], f[y])
    IN [x \in 1..N |-> rec.outputs[s[x][1]][s[x][2]][2][s[x][3]]]

\* The local paths of the /view requests answered 200, in request order.
SucceededPaths(log, output_dir) ==
    LET ok == SelectSeq(log, LAMBDA e : e[2] = StatusOK)
    IN [x \in 1..Len(ok) |-> output_dir \o <<Basename(ok[x][1])>>]

\* C11: in download_images a /view answer other than 200 for one file
\* writes nothing for it and the remaining files are still requested; the
\* returned list is exactly the local paths of the files whose /view request
\* was answered 200, in encounter order; only the descriptors of kind
\* "images" with a non-empty filename are requested.
C11_PerFileFailureSkipped ==
    (pc \in {"view", "job_end"} /\ msg = "downloading") =>
        LET exp == ImageNames(record)
            n == Len(view_log)
            paths == SucceededPaths(view_log, OutputDir(i))
        IN /\ n <= Len(exp)
           /\ \A x \in 1..n : view_log[x][1] = exp[x]
           /\ reqs.view = n
           /\ pc = "job_end" => n = Len(exp)
           /\ downloaded_files = paths
           /\ files = {paths[x] : x \in 1..Len(paths)}
           /\ error = NoError

\* A failed first file followed by a written second one, in a record that
\* also holds a descriptor of another kind.
C11_Witness ==
    /\ pc = "job_end"
    /\ Len(view_log) = 3
    /\ view_log[1][2] = 500
    /\ view_log[2][2] = StatusOK
    /\ view_log[3][2] = 204
    /\ Len(downloaded_files) = 1

\* C12: for a history record with n descriptors of kind "images" with
\* non-empty filenames whose /view requests are all answered 200,
\* download_images writes exactly n files to the output directory and
\* returns n paths, each the output directory joined with the basename of
\* its descriptor's filename.
C12_DownloadCount ==
    (/\ pc = "job_end"
     /\ msg = "downloading"
     /\ \A x \in 1..Len(view_log) : view_log[x][2] = StatusOK) =>
        LET names == ImageNames(record)
            n == Len(names)
        IN /\ Len(downloaded_files) = n
           /\ \A x \in 1..n :
                 downloaded_files[x] = OutputDir(i) \o <<Basename(names[x])>>
           /\ Cardinality(files) = n

\* The current job has been submitted, awaited and its download step has
\* ended.
JobFinished ==
    /\ pc = "next"
    /\ reqs.prompt = 1
    /\ prompt_status = StatusOK
    /\ reqs.queue >= 1
    /\ first_qualifying = reqs.queue
    /\ reqs.history = 1
    /\ todo = <<>>

\* The requests of the current job so far are in the order submit, queue
\* polls, history fetch, file downloads.
RequestsInOrder ==
    /\ reqs.prompt <= 1
    /\ reqs.history <= 1
    /\ reqs.queue > 0 => reqs.prompt = 1 /\ prompt_status = StatusOK
    /\ reqs.history > 0 => reqs.queue > 0 /\ first_qualifying = reqs.queue
    /\ reqs.view > 0 => reqs.history = 1 /\ history_resp[1] = StatusOK
    /\ pc \in {"wait_poll", "wait_sleep"} => reqs.history = 0 /\ reqs.view = 0
    /\ pc = "run" => reqs = NoRequests

\* C13: the driver runs the jobs strictly one after another: each job's
\* requests occur in the order submit, queue polls, history fetch, file
\* downloads, and the driver moves to job k+1 (whose submit follows) only
\* after the await of job k has returned and its download step has ended,
\* so no two jobs are ever between submit and download completion.
C13_StrictlySequentialJobs ==
    /\ [](RequestsInOrder)
    /\ [][i' # i => (i' = i + 1 /\ JobFinished /\ pc' = "run"
                                /\ reqs' = NoRequests)]_vars
    /\ [][reqs'.prompt > reqs.prompt =>
             (pc = "run" /\ reqs = NoRequests /\ i' = i)]_vars

\* The third job downloads its second file.
C13_Witness ==
    /\ i = 2
    /\ pc = "view"
    /\ reqs.prompt = 1
    /\ reqs.queue >= 2
    /\ reqs.history = 1
    /\ reqs.view = 1

\* C14: between every two consecutive jobs of a batch (the end of one job's
\* download step and the next job's submit) the cooldown delay is applied,
\* and no cooldown is applied after the last job.
C14_CooldownBetweenJobs ==
    /\ pc \in {"run", "wait_poll", "wait_sleep", "download", "view", "job_end"} =>
          \A k \in 0..(i - 1) : <<k, CooldownSeconds>> \in cooldowns
    /\ \A c \in cooldowns : c[1] < Len(story_descriptions) - 1

\* C15: a submit failure (a failing status or no extractable identifier) in
\* any job, the test run or a later one, aborts that job and is caught at
\* the batch level: the driver reports the error and ends, with no request
\* for the job after its submit and no exception left unhandled.
C15_SubmitFailureCaught ==
    LET r == run_workflow(prompt_status, result) IN
    /\ pc # "uncaught"
    /\ (reqs.prompt = 1 /\ r.error # NoError) =>
          /\ pc = "caught"
          /\ error = r.error
          /\ error.type \in {"SubmitError", "MissingIdentifier", "TypeError"}
          /\ reqs.queue = 0
          /\ reqs.history = 0
          /\ reqs.view = 0

\* The submit of a job of the batch loop is answered 500.
C15_Witness ==
    /\ i >= 1
    /\ pc = "caught"
    /\ prompt_status = 500
    /\ error.type = "SubmitError"
    /\ reqs.prompt = 1

\* C16: wait_for_completion has no maximum wait.  It returns only at a
\* qualifying poll; as long as no poll qualifies (every answer fails, or
\* another job is always running) it never returns and keeps polling
\* forever, with exactly one sleep between consecutive polls; and if a
\* qualifying poll eventually occurs, it eventually returns success.
C16_NoMaximumWait ==
    /\ [](pc = "download" => first_qualifying # 0 /\ error = NoError)
    /\ [][pc = "wait_poll" => pc' \in {"wait_sleep", "download"}]_vars
    /\ [][pc = "wait_sleep" => pc' = "wait_poll"]_vars
    /\ [](first_qualifying = 0) =>
          ([]<>(pc = "wait_poll") /\ []<>(pc = "wait_sleep"))
    /\ <>(first_qualifying # 0) => <>(pc = "download" /\ error = NoError)

\* MaxPolls polls and as many sleeps have passed, the last answer was a
\* failure, and the wait is about to poll again.
C16_Witness ==
    /\ pc = "wait_poll"
    /\ reqs.queue = MaxPolls
    /\ sleeps = MaxPolls
    /\ first_qualifying = 0
    /\ status_code = 500

\* C17: for a job whose await returned, whatever the history endpoint
\* answers (job absent, record without outputs, or a failing status),
\* download_images returns a list and raises no error, so the download step
\* of a job of the batch loop never keeps the next job from being
\* submitted.
C17_DownloadStepNeverRaises ==
    reqs.history = 1 =>
        /\ error = NoError
        /\ pc \in {"view", "job_end", "cooldown", "next", "done"}

\* The submit of the current job has raised.
SubmitRaised ==
    /\ reqs.prompt = 1
    /\ run_workflow(prompt_status, result).error # NoError

\* C18: once the submit of job k raises, no request of any kind (submit,
\* poll, history, view) is issued for job k or for any later job, no
\* cooldown sleep follows, and the files written by the jobs before k stay.
C18_BatchAbortAfterFailure ==
    /\ [](SubmitRaised => reqs = [NoRequests EXCEPT !.prompt = 1])
    /\ [][SubmitRaised => /\ reqs' = reqs
                           /\ i' = i
                           /\ pc' = pc
                           /\ cooldowns' = cooldowns
                           /\ sleeps' = sleeps
                           /\ files' = files
                           /\ dirs' = dirs]_vars

\* The submit of the second of three jobs raised after the first job wrote
\* a file.
C18_Witness ==
    /\ SubmitRaised
    /\ pc = "caught"
    /\ i = 1
    /\ Len(story_descriptions) = MaxStories
    /\ files # {}
    /\ cooldowns = {}

\* The latest history fetch of the current job was answered 200.
HistoryFetched == reqs.history = 1 /\ history_resp[1] = StatusOK

\* What a client that keeps no cache returns and requests for the answers
\* received: the submit's identifier, the record of the job in the fetched
\* collection, the /view requests and the paths returned.
CacheFreeOutcome ==
    /\ (reqs.prompt = 1 /\ run_workflow(prompt_status, result).error = NoError) =>
          prompt_id = run_workflow(prompt_status, result).value
    /\ HistoryFetched =>
          /\ record = IF prompt_id \in DOMAIN history_resp[2]
                      THEN history_resp[2][prompt_id] ELSE EmptyRecord
          /\ Len(view_log) <= Len(ImageNames(record))
          /\ \A x \in 1..Len(view_log) : view_log[x][1] = ImageNames(record)[x]
          /\ downloaded_files = SucceededPaths(view_log, OutputDir(i))
          /\ pc \notin {"download", "view"} => Len(view_log) = Len(ImageNames(record))

\* C19: history_data has no consumer.  After every get_history answered
\* 200 it is the whole collection just fetched, a failed fetch leaves it
\* unchanged, nothing else writes it, and what every operation returns,
\* requests and writes is what a client without the cache would, whatever
\* the cache holds.
C19_CacheHasNoConsumer ==
    /\ [](history_resp[1] = StatusOK => history_data = history_resp[2])
    /\ [][history_data' # history_data =>
             /\ pc = "download"
             /\ reqs'.history = reqs.history + 1
             /\ history_resp'[1] = StatusOK]_vars
    /\ [][(reqs'.history = reqs.history + 1 /\ history_resp'[1] # StatusOK) =>
             history_data' = history_data]_vars
    /\ [](CacheFreeOutcome)

\* The second job is absent from the collection fetched for it, while the
\* cache held the collection fetched for the first job, whose identifier
\* was the same.
C19_Witness ==
    /\ i = 1
    /\ pc = "job_end"
    /\ prompt_id = Str("p1")
    /\ history_resp = <<StatusOK, <<>> >>
    /\ history_data = <<>>
    /\ record = EmptyRecord
    /\ OutputDir(0) \o <<"a.png">> \in files
    /\ prompt_data # <<>>

====
